---- MODULE Spec2Model ----
(***************************************************************************)
(* Model of aclients/aio_redis_client.py: the Session object and the       *)
(* AIORedisClient wrapper over a Redis store (aredis.StrictRedis created   *)
(* with decode_responses=True, so every reply value is a str).             *)
(*                                                                         *)
(* A Python str is a sequence of one-character strings; a non-string       *)
(* Python value is an integer or None.  Python values are tagged records   *)
(* so that a str and the integer it spells are different values.           *)
(***************************************************************************)
EXTENDS Integers, Sequences, FiniteSets, TLC

VARIABLES store, pushed, last, pc, got, res, trace

vars == <<store, pushed, last, pc, got, res, trace>>

\* ---------------------------------------------------------------- bounds
MaxListLen == 2

\* ------------------------------------------------------- program constants
EXPIRED == 24 * 60 * 60

\* ---------------------------------------------------------- Python values
PyStr(s) == [str |-> s]
PyInt(n) == [int |-> n]
PyNone == [none |-> TRUE]

isinstance_str(v) == DOMAIN v = {"str"}

DigitChars == <<"0", "1", "2", "3", "4", "5", "6", "7", "8", "9">>

IsDigit(c) == \E i \in 1..10 : DigitChars[i] = c

DigitVal(c) == (CHOOSE i \in 1..10 : DigitChars[i] = c) - 1

RECURSIVE IntText(_)
IntText(n) == IF n < 10 THEN <<DigitChars[n + 1]>>
              ELSE IntText(n \div 10) \o <<DigitChars[(n % 10) + 1]>>

RECURSIVE TextInt(_)
TextInt(s) == IF s = <<>> THEN 0
              ELSE TextInt(SubSeq(s, 1, Len(s) - 1)) * 10 + DigitVal(s[Len(s)])

NullText == <<"n", "u", "l", "l">>

\* ujson.dumps of a non-string value
ujson_dumps(v) == IF DOMAIN v = {"int"} THEN IntText(v.int) ELSE NullText

IsIntText(s) == /\ Len(s) > 0
                /\ \A i \in 1..Len(s) : IsDigit(s[i])
                /\ (Len(s) = 1 \/ s[1] # "0")

IsQuoted(s) == /\ Len(s) >= 2
               /\ s[1] = "\""
               /\ s[Len(s)] = "\""
               /\ \A i \in 2..(Len(s) - 1) : s[i] # "\""

\* ujson.loads of a str: ok = FALSE stands for the ValueError it raises
ujson_loads(s) == IF IsIntText(s) THEN [ok |-> TRUE, v |-> PyInt(TextInt(s))]
                  ELSE IF s = NullText THEN [ok |-> TRUE, v |-> PyNone]
                  ELSE IF IsQuoted(s) THEN [ok |-> TRUE, v |-> PyStr(SubSeq(s, 2, Len(s) - 1))]
                  ELSE [ok |-> FALSE, v |-> PyNone]

\* `val if isinstance(val, str) else ujson.dumps(val)`
Serialize(v) == IF isinstance_str(v) THEN v.str ELSE ujson_dumps(v)

\* ------------------------------------------------------------ the Session
\* Truthiness of a Python value, as `x or uuid.uuid4().hex` tests it
Truthy(v) == IF isinstance_str(v) THEN v.str # <<>>
             ELSE IF DOMAIN v = {"int"} THEN v.int # 0
             ELSE FALSE

\* Session.__init__: vars(session) as a function from attribute to value;
\* gen is the uuid4().hex drawn for a missing id
Session(user_id, session_id, org_id, permission_id, kwargs, gen) ==
    kwargs @@ [user_id |-> user_id,
               session_id |-> IF Truthy(session_id) THEN session_id ELSE PyStr(gen),
               org_id |-> IF Truthy(org_id) THEN org_id ELSE PyStr(gen),
               permission_id |-> IF Truthy(permission_id) THEN permission_id ELSE PyStr(gen)]

\* ------------------------------------------------------------ the store
\* One entry per key.  ttl = 0 on a live key means "no expiration set".
Absent == [type |-> "none", val |-> <<>>, ttl |-> 0]

K1 == <<"k", "1">>
K2 == <<"k", "2">>
Keys == {K1, K2}

\* Reply of one store command: the store after it, whether the client raised
\* a RedisError (DataError and ResponseError are RedisErrors), and the value
Reply(st, val) == [st |-> st, err |-> FALSE, val |-> val]
Raise(st) == [st |-> st, err |-> TRUE, val |-> FALSE]

\* HMSET: aredis raises DataError on an empty mapping; the server answers
\* WRONGTYPE for a key of another type, else merges the fields and answers OK
redis_hmset(st, name, mapping) ==
    IF DOMAIN mapping = {} THEN Raise(st)
    ELSE IF st[name].type \notin {"none", "hash"} THEN Raise(st)
    ELSE LET old == IF st[name].type = "hash" THEN st[name].val ELSE <<>>
             ttl == IF st[name].type = "hash" THEN st[name].ttl ELSE 0
         IN Reply([st EXCEPT ![name] = [type |-> "hash", val |-> mapping @@ old, ttl |-> ttl]],
                  TRUE)

\* EXPIRE: 0 for a missing key; a timeout <= 0 deletes the key and answers 1
redis_expire(st, name, time) ==
    IF st[name].type = "none" THEN Reply(st, FALSE)
    ELSE IF time <= 0 THEN Reply([st EXCEPT ![name] = Absent], TRUE)
    ELSE Reply([st EXCEPT ![name].ttl = time], TRUE)

\* HGET: None (modelled as PyNone) for a missing key or field
redis_hget(st, name, field) ==
    IF st[name].type = "none" THEN Reply(st, PyNone)
    ELSE IF st[name].type # "hash" THEN Raise(st)
    ELSE IF field \in DOMAIN st[name].val THEN Reply(st, PyStr(st[name].val[field]))
    ELSE Reply(st, PyNone)

\* HGETALL: the empty dict for a missing key
redis_hgetall(st, name) ==
    IF st[name].type = "none" THEN Reply(st, <<>>)
    ELSE IF st[name].type # "hash" THEN Raise(st)
    ELSE Reply(st, st[name].val)

\* DEL: the number of keys removed; no name at all is a ResponseError
redis_delete(st, names) ==
    IF names = <<>> THEN Raise(st)
    ELSE LET ns == {names[i] : i \in 1..Len(names)}
         IN Reply([k \in Keys |-> IF k \in ns THEN Absent ELSE st[k]],
                  Cardinality({k \in ns : st[k].type # "none"}))

RECURSIVE PushLeft(_, _)
PushLeft(list, values) == IF values = <<>> THEN list
                          ELSE PushLeft(<<Head(values)>> \o list, Tail(values))

\* LPUSH / RPUSH: the new length; no value at all is a ResponseError
redis_lpush(st, name, values) ==
    IF values = <<>> THEN Raise(st)
    ELSE IF st[name].type \notin {"none", "list"} THEN Raise(st)
    ELSE LET new == PushLeft(st[name].val, values)
         IN Reply([st EXCEPT ![name] = [type |-> "list", val |-> new, ttl |-> @.ttl]], Len(new))

redis_rpush(st, name, values) ==
    IF values = <<>> THEN Raise(st)
    ELSE IF st[name].type \notin {"none", "list"} THEN Raise(st)
    ELSE LET new == st[name].val \o values
         IN Reply([st EXCEPT ![name] = [type |-> "list", val |-> new, ttl |-> @.ttl]], Len(new))

\* LRANGE with the server's index arithmetic (0-based, inclusive, negative
\* indexes counted from the end)
redis_lrange(st, name, start, end) ==
    IF st[name].type = "none" THEN Reply(st, <<>>)
    ELSE IF st[name].type # "list" THEN Raise(st)
    ELSE LET list == st[name].val
             llen == Len(list)
             s0 == IF start < 0 THEN start + llen ELSE start
             e0 == IF end < 0 THEN end + llen ELSE end
             s1 == IF s0 < 0 THEN 0 ELSE s0
             e1 == IF e0 >= llen THEN llen - 1 ELSE e0
         IN IF s1 > e1 \/ s1 >= llen THEN Reply(st, <<>>)
            ELSE Reply(st, SubSeq(list, s1 + 1, e1 + 1))

\* SET name value EX ex: replaces a key of any type; ex <= 0 is a ResponseError
redis_set(st, name, value, ex) ==
    IF ex <= 0 THEN Raise(st)
    ELSE Reply([st EXCEPT ![name] = [type |-> "string", val |-> value, ttl |-> ex]], TRUE)

redis_get(st, name) ==
    IF st[name].type = "none" THEN Reply(st, PyNone)
    ELSE IF st[name].type # "string" THEN Raise(st)
    ELSE Reply(st, PyStr(st[name].val))

redis_exists(st, name) == Reply(st, st[name].type # "none")

RECURSIVE GlobMatch(_, _)
GlobMatch(p, s) ==
    IF p = <<>> THEN s = <<>>
    ELSE IF Head(p) = "*" THEN GlobMatch(Tail(p), s) \/ (s # <<>> /\ GlobMatch(p, Tail(s)))
    ELSE /\ s # <<>>
         /\ (Head(p) = "?" \/ Head(p) = Head(s))
         /\ GlobMatch(Tail(p), Tail(s))

\* KEYS pattern: the reply's order is the server's; it is kept as a set
redis_keys(st, pattern) ==
    Reply(st, {k \in Keys : st[k].type # "none" /\ GlobMatch(pattern, k)})

\* ------------------------------------------------- outcome of one call
\* status: "ok" or the class of the exception that leaves the coroutine;
\* msg: which raise statement; ret: the returned value; cmds: the store
\* commands issued, in order
Ok(st, ret, cmds) ==
    [st |-> st, status |-> "ok", msg |-> "", ret |-> ret, cmds |-> cmds]
Fail(st, msg, cmds) ==
    [st |-> st, status |-> "RedisClientError", msg |-> msg, ret |-> PyNone, cmds |-> cmds]
Escape(st, class, cmds) ==
    [st |-> st, status |-> class, msg |-> "", ret |-> PyNone, cmds |-> cmds]

\* ------------------------------------------------------------ handlers
\* Faulty variant of WriteHash: the expiration is never refreshed
WriteHash_no_expire(st, name, mapping, ex, ret, failmsg) ==
    LET w == redis_hmset(st, name, mapping)
    IN IF w.err THEN Fail(w.st, "store_error", <<"hmset">>)
       ELSE IF ~w.val THEN Fail(w.st, failmsg, <<"hmset">>)
       ELSE Ok(w.st, ret, <<"hmset">>)

\* The hmset + expire write path shared by save_session, update_session
\* and save_update_hash_data
WriteHash(st, name, mapping, ex, ret, failmsg) ==
    LET w == redis_hmset(st, name, mapping)
        e == redis_expire(w.st, name, ex)
    IN IF w.err THEN Fail(w.st, "store_error", <<"hmset">>)
       ELSE IF ~w.val THEN Fail(w.st, failmsg, <<"hmset">>)
       ELSE IF e.err THEN Fail(e.st, "store_error", <<"hmset", "expire">>)
       ELSE IF ~e.val THEN Fail(e.st, "expire_failed", <<"hmset", "expire">>)
       ELSE Ok(e.st, ret, <<"hmset", "expire">>)

save_session(st, session, ex) ==
    LET session_data == [a \in DOMAIN session |-> Serialize(session[a])]
    IN WriteHash(st, session_data["session_id"], session_data, ex,
                 session["session_id"], "save_failed")

\* Faulty variant of update_session: the old record is dropped before the write
update_session_replace(st, session, ex) ==
    LET session_data == [a \in DOMAIN session |-> Serialize(session[a])]
        name == session_data["session_id"]
        cleared == IF st[name].type = "hash" THEN [st EXCEPT ![name] = Absent] ELSE st
    IN WriteHash(cleared, name, session_data, ex, PyNone, "update_failed")

update_session(st, session, ex) ==
    LET session_data == [a \in DOMAIN session |-> Serialize(session[a])]
    IN WriteHash(st, session_data["session_id"], session_data, ex,
                 PyNone, "update_failed")

\* Faulty variant of delete_session_finish: the stored id is not compared
delete_session_finish_unchecked(st, session_id, r) ==
    LET d == redis_delete(st, <<session_id>>)
    IN IF r.err THEN Fail(st, "store_error", <<"hget">>)
       ELSE IF d.err THEN Fail(d.st, "store_error", <<"hget", "delete">>)
       ELSE IF d.val = 0 THEN Fail(d.st, "delete_failed", <<"hget", "delete">>)
       ELSE Ok(d.st, PyNone, <<"hget", "delete">>)

\* Faulty variant of delete_session_finish: the delete count is not tested
delete_session_finish_blind(st, session_id, r) ==
    LET d == redis_delete(st, <<session_id>>)
    IN IF r.err THEN Fail(st, "store_error", <<"hget">>)
       ELSE IF r.val # PyStr(session_id) THEN Fail(st, "mismatch", <<"hget">>)
       ELSE IF d.err THEN Fail(d.st, "store_error", <<"hget", "delete">>)
       ELSE Ok(d.st, PyNone, <<"hget", "delete">>)

\* What delete_session does once hget has answered r, on the store as it
\* is by then
delete_session_finish(st, session_id, r) ==
    LET d == redis_delete(st, <<session_id>>)
    IN IF r.err THEN Fail(st, "store_error", <<"hget">>)
       ELSE IF r.val # PyStr(session_id) THEN Fail(st, "mismatch", <<"hget">>)
       ELSE IF d.err THEN Fail(d.st, "store_error", <<"hget", "delete">>)
       ELSE IF d.val = 0 THEN Fail(d.st, "delete_failed", <<"hget", "delete">>)
       ELSE Ok(d.st, PyNone, <<"hget", "delete">>)

delete_session(st, session_id) ==
    delete_session_finish(st, session_id, redis_hget(st, session_id, "session_id"))

\* `val if isinstance(val, str) else ujson.loads(val)` on a reply value
Deserialize(v) == IF isinstance_str(v) THEN v ELSE ujson_loads(v.str).v

SessionIds == {"session_id", "org_id", "permission_id"}

\* The call Session(user_id=session_data.pop('user_id'),
\* session_id=session_data["session_id"], org_id=..., permission_id=...,
\* **session_data): a missing key is a KeyError, a keyword given twice a
\* TypeError
SessionCall(st, session_data, cmds) ==
    IF "user_id" \notin DOMAIN session_data THEN Escape(st, "KeyError", cmds)
    ELSE LET rest == [a \in DOMAIN session_data \ {"user_id"} |-> session_data[a]]
         IN IF ~(SessionIds \subseteq DOMAIN rest) THEN Escape(st, "KeyError", cmds)
            ELSE IF SessionIds \cap DOMAIN rest # {} THEN Escape(st, "TypeError", cmds)
            ELSE Ok(st, Session(session_data["user_id"], rest["session_id"], rest["org_id"],
                                rest["permission_id"], rest, <<>>), cmds)

get_session(st, session_id, ex) ==
    LET r == redis_hgetall(st, session_id)
        e == redis_expire(r.st, session_id, ex)
    IN IF r.err THEN Fail(r.st, "store_error", <<"hgetall">>)
       ELSE IF DOMAIN r.val = {} THEN Fail(r.st, "not_found", <<"hgetall">>)
       ELSE IF e.err THEN Fail(e.st, "store_error", <<"hgetall", "expire">>)
       ELSE IF ~e.val THEN Fail(e.st, "expire_failed", <<"hgetall", "expire">>)
       ELSE SessionCall(e.st,
                        [a \in DOMAIN r.val |-> Deserialize(PyStr(r.val[a]))],
                        <<"hgetall", "expire">>)

verify(st, session_id) ==
    LET g == get_session(st, session_id, EXPIRED)
    IN IF g.status = "RedisClientError" THEN Fail(g.st, g.msg, g.cmds)
       ELSE IF g.status # "ok" THEN g
       ELSE IF PyStr(session_id) # g.ret["session_id"] THEN Fail(g.st, "mismatch", g.cmds)
       ELSE g

\* hash_data: [mapping |-> is it a MutableMapping, data |-> its items]
save_update_hash_data(st, name, hash_data, ex) ==
    IF ~hash_data.mapping THEN Escape(st, "ValueError", <<>>)
    ELSE WriteHash(st, name, hash_data.data, ex, PyStr(name), "save_failed")

\* Faulty variant of get_hash_data: the result of expire is not tested
get_hash_data_unchecked(st, name, field_name, ex) ==
    LET r == IF field_name # "" THEN redis_hget(st, name, field_name)
             ELSE redis_hgetall(st, name)
        c == IF field_name # "" THEN "hget" ELSE "hgetall"
        e == redis_expire(r.st, name, ex)
    IN IF r.err THEN Fail(r.st, "store_error", <<c>>)
       ELSE Ok(e.st, r.val, <<c, "expire">>)

\* field_name = "" stands for None (and for the empty str, falsy as well)
get_hash_data(st, name, field_name, ex) ==
    LET r == IF field_name # "" THEN redis_hget(st, name, field_name)
             ELSE redis_hgetall(st, name)
        c == IF field_name # "" THEN "hget" ELSE "hgetall"
        e == redis_expire(r.st, name, ex)
    IN IF r.err THEN Fail(r.st, "store_error", <<c>>)
       ELSE IF e.err THEN Fail(e.st, "store_error", <<c, "expire">>)
       ELSE IF ~e.val THEN Fail(e.st, "expire_failed", <<c, "expire">>)
       ELSE Ok(e.st, r.val, <<c, "expire">>)

get_list_data(st, name, start, end, ex) ==
    LET r == redis_lrange(st, name, start, end)
        e == redis_expire(r.st, name, ex)
    IN IF r.err THEN Fail(r.st, "store_error", <<"lrange">>)
       ELSE IF e.err THEN Fail(e.st, "store_error", <<"lrange", "expire">>)
       ELSE IF ~e.val THEN Fail(e.st, "expire_failed", <<"lrange", "expire">>)
       ELSE Ok(e.st, r.val, <<"lrange", "expire">>)

\* Faulty variant of save_list_data: the two sides are exchanged
save_list_data_swapped(st, name, list_data, save_to_left, ex) ==
    LET values == IF isinstance_str(list_data) THEN <<list_data.str>> ELSE list_data.list
        c == IF save_to_left THEN "lpush" ELSE "rpush"
        p == IF save_to_left THEN redis_rpush(st, name, values)
             ELSE redis_lpush(st, name, values)
        e == redis_expire(p.st, name, ex)
    IN IF p.err THEN Fail(p.st, "store_error", <<c>>)
       ELSE IF p.val = 0 THEN Fail(p.st, "push_failed", <<c>>)
       ELSE IF e.err THEN Fail(e.st, "store_error", <<c, "expire">>)
       ELSE IF ~e.val THEN Fail(e.st, "expire_failed", <<c, "expire">>)
       ELSE Ok(e.st, PyStr(name), <<c, "expire">>)

\* list_data: a str ([str |-> s]) or a sequence of strs ([list |-> seq])
save_list_data(st, name, list_data, save_to_left, ex) ==
    LET values == IF isinstance_str(list_data) THEN <<list_data.str>> ELSE list_data.list
        c == IF save_to_left THEN "lpush" ELSE "rpush"
        p == IF save_to_left THEN redis_lpush(st, name, values)
             ELSE redis_rpush(st, name, values)
        e == redis_expire(p.st, name, ex)
    IN IF p.err THEN Fail(p.st, "store_error", <<c>>)
       ELSE IF p.val = 0 THEN Fail(p.st, "push_failed", <<c>>)
       ELSE IF e.err THEN Fail(e.st, "store_error", <<c, "expire">>)
       ELSE IF ~e.val THEN Fail(e.st, "expire_failed", <<c, "expire">>)
       ELSE Ok(e.st, PyStr(name), <<c, "expire">>)

save_update_usual_data(st, name, value, ex) ==
    LET s == redis_set(st, name, Serialize(value), ex)
    IN IF s.err THEN Fail(s.st, "store_error", <<"set">>)
       ELSE IF ~s.val THEN Fail(s.st, "set_failed", <<"set">>)
       ELSE Ok(s.st, PyStr(name), <<"set">>)

\* `with ignore_error(): data = ujson.loads(data)`: data keeps its value
\* when loads raises
ignore_error(loaded, data) == IF loaded.ok THEN loaded.v ELSE data

get_usual_data(st, name, ex) ==
    LET r == redis_get(st, name)
        e == redis_expire(r.st, name, ex)
    IN IF r.err THEN Fail(r.st, "store_error", <<"get">>)
       ELSE IF e.err THEN Fail(e.st, "store_error", <<"get", "expire">>)
       ELSE IF ~e.val THEN Fail(e.st, "expire_failed", <<"get", "expire">>)
       ELSE Ok(e.st, ignore_error(ujson_loads(r.val.str), r.val), <<"get", "expire">>)

\* Faulty variant of is_exist_key: the answer is negated
is_exist_key_negated(st, name) ==
    LET r == redis_exists(st, name)
    IN IF r.err THEN Fail(r.st, "store_error", <<"exists">>)
       ELSE Ok(r.st, ~r.val, <<"exists">>)

is_exist_key(st, name) ==
    LET r == redis_exists(st, name)
    IN IF r.err THEN Fail(r.st, "store_error", <<"exists">>)
       ELSE Ok(r.st, r.val, <<"exists">>)

\* names: a str ([str |-> s]) or a sequence of strs ([list |-> seq])
delete_keys(st, names) ==
    LET ns == IF isinstance_str(names) THEN <<names.str>> ELSE names.list
        d == redis_delete(st, ns)
    IN IF d.err THEN Fail(d.st, "store_error", <<"delete">>)
       ELSE IF d.val = 0 THEN Fail(d.st, "delete_failed", <<"delete">>)
       ELSE Ok(d.st, PyNone, <<"delete">>)

get_keys(st, pattern_name) ==
    LET r == redis_keys(st, pattern_name)
    IN IF r.err THEN Fail(r.st, "store_error", <<"keys">>)
       ELSE Ok(r.st, r.val, <<"keys">>)

\* ------------------------------------------------------- bounded inputs
\* Expirations the callers ask for, in seconds (verify asks for EXPIRED)
TtlInputs == {0, 1}

Kwargs == UNION {[S -> {PyInt(7)}] : S \in SUBSET {"x"}}

SessionInputs ==
    {Session(PyStr(<<"u">>), PyStr(k), PyStr(<<"o">>), PyStr(<<"p">>), kw, <<"g">>) :
        k \in Keys, kw \in Kwargs}

\* The names the callers use for hashes, lists and plain values
DataNames == {K1}

HashInputs ==
    {[mapping |-> TRUE, data |-> d] :
        d \in UNION {[S -> {K2}] : S \in {{}, {"session_id"}}} \cup {[x |-> <<"7">>]}}
    \cup {[mapping |-> FALSE, data |-> <<>>]}

FieldInputs == {"", "session_id", "x"}

Elems == {<<"a">>, <<"b", "c">>}

SeqsUpTo(S, n) == UNION {[1..m -> S] : m \in 0..n}

ListInputs == {PyStr(e) : e \in Elems} \cup {[list |-> s] : s \in {<<>>, <<<<"a">>, <<"b", "c">>>>}}

RangeInputs == {<<0, -1>>, <<1, -1>>, <<0, 0>>}

UsualInputs == {PyStr(<<"a">>), PyStr(<<"7">>), PyInt(7)}

NamesInputs == {PyStr(k) : k \in Keys} \cup {[list |-> s] : s \in SeqsUpTo(Keys, 2)}

PatternInputs == {<<"*">>, <<"k", "?">>, <<"k">>, K2}

\* ------------------------------------------------------------ the state
\* store:  the Redis database
\* pushed: per key, the save_list_data calls that built the list now under
\*         it: the elements in the order they were given, and the sides used
\* last:   the latest call, its arguments and its outcome; a read also
\*         keeps the call before it (prev) and the key's push history (hist)
\* pc, got, res, trace: two concurrent delete_session coroutines (Race)
NoCall == [op |-> "none", status |-> ""]
NoPushes == [seq |-> <<>>, sides |-> {}]
BothSides == [seq |-> <<>>, sides |-> BOOLEAN]
Callers == {"A", "B"}

Call(op, key, arg, ex, r, prev, hist) ==
    [op |-> op, key |-> key, arg |-> arg, ex |-> ex, status |-> r.status, msg |-> r.msg,
     ret |-> r.ret, cmds |-> r.cmds, prev |-> prev, hist |-> hist]

\* What a read keeps of the call before it: a successful call among ops
Recall(c, ops) ==
    IF c.op \in ops /\ c.status = "ok"
    THEN [op |-> c.op, key |-> c.key, arg |-> c.arg, ex |-> c.ex, status |-> c.status]
    ELSE NoCall

SaveOps == {"save_session", "update_session", "save_update_hash_data", "save_list_data",
            "save_update_usual_data"}
DeleteOps == {"delete_session", "delete_keys"}

\* What the database may hold under K1 when the client connects: nothing, or
\* a hash or a list another client has left there with no expiration
InitEntries == {Absent,
                [type |-> "hash", val |-> [x |-> <<"7">>], ttl |-> 0],
                [type |-> "list", val |-> <<<<"a">>>>, ttl |-> 0]}

Init ==
    /\ \E e \in InitEntries :
          /\ store = [k \in Keys |-> IF k = K1 THEN e ELSE Absent]
          /\ pushed = [k \in Keys |-> IF k = K1 /\ e.type = "list" THEN BothSides ELSE NoPushes]
    /\ last = NoCall
    /\ pc = [c \in Callers |-> "idle"]
    /\ got = [c \in Callers |-> Reply(<<>>, PyNone)]
    /\ res = [c \in Callers |-> NoCall]
    /\ trace = <<>>

raceVars == <<pc, got, res, trace>>

\* A key that no longer holds a list has no push history
Forget(st, hist) == [k \in Keys |-> IF st[k].type = "list" THEN hist[k] ELSE NoPushes]

\* One whole call: its effect on the store and its outcome
Return(op, key, arg, ex, r, prev) ==
    /\ store' = r.st
    /\ pushed' = Forget(r.st, pushed)
    /\ last' = Call(op, key, arg, ex, r, prev, NoPushes)
    /\ UNCHANGED raceVars

SaveSession ==
    \E s \in SessionInputs, ex \in TtlInputs :
        Return("save_session", s["session_id"].str, s, ex, save_session(store, s, ex), NoCall)

UpdateSession ==
    \E s \in SessionInputs, ex \in TtlInputs :
        Return("update_session", s["session_id"].str, s, ex,
               update_session(store, s, ex), NoCall)

DeleteSession ==
    \E k \in Keys :
        Return("delete_session", k, PyStr(k), 0, delete_session(store, k), NoCall)

GetSession ==
    \E k \in Keys, ex \in TtlInputs :
        Return("get_session", k, PyStr(k), ex, get_session(store, k, ex),
               Recall(last, {"save_session"}))

Verify ==
    \E k \in Keys :
        Return("verify", k, PyStr(k), EXPIRED, verify(store, k), NoCall)

SaveUpdateHashData ==
    \E k \in DataNames, h \in HashInputs, ex \in TtlInputs :
        Return("save_update_hash_data", k, h, ex, save_update_hash_data(store, k, h, ex), NoCall)

GetHashData ==
    \E k \in DataNames, f \in FieldInputs, ex \in TtlInputs :
        Return("get_hash_data", k, f, ex, get_hash_data(store, k, f, ex), NoCall)

SaveListData ==
    \E k \in DataNames, l \in ListInputs, left \in BOOLEAN, ex \in TtlInputs :
        LET r == save_list_data(store, k, l, left, ex)
            given == IF isinstance_str(l) THEN <<l.str>> ELSE l.list
            h == [pushed EXCEPT ![k] = IF @.sides \subseteq {left}
                                       THEN [seq |-> @.seq \o given, sides |-> {left}]
                                       ELSE BothSides]
        IN /\ store[k].type = "list" => Len(store[k].val) + Len(given) <= MaxListLen
           /\ store' = r.st
           /\ pushed' = Forget(r.st, IF r.status = "ok" THEN h ELSE pushed)
           /\ last' = Call("save_list_data", k, [data |-> l, left |-> left], ex, r, NoCall, NoPushes)
           /\ UNCHANGED raceVars

GetListData ==
    \E k \in DataNames, rg \in RangeInputs, ex \in TtlInputs :
        LET r == get_list_data(store, k, rg[1], rg[2], ex)
        IN /\ store' = r.st
           /\ pushed' = Forget(r.st, pushed)
           /\ last' = Call("get_list_data", k, rg, ex, r, NoCall, pushed[k])
           /\ UNCHANGED raceVars

SaveUpdateUsualData ==
    \E k \in DataNames, v \in UsualInputs, ex \in TtlInputs :
        Return("save_update_usual_data", k, v, ex, save_update_usual_data(store, k, v, ex), NoCall)

GetUsualData ==
    \E k \in DataNames, ex \in TtlInputs :
        Return("get_usual_data", k, PyStr(k), ex, get_usual_data(store, k, ex),
               Recall(last, {"save_update_usual_data"}))

IsExistKey ==
    \E k \in Keys :
        Return("is_exist_key", k, PyStr(k), 0, is_exist_key(store, k),
               Recall(last, SaveOps \cup DeleteOps))

DeleteKeys ==
    \E ns \in NamesInputs :
        Return("delete_keys", <<>>, ns, 0, delete_keys(store, ns), NoCall)

GetKeys ==
    \E p \in PatternInputs :
        Return("get_keys", <<>>, p, 0, get_keys(store, p), NoCall)

\* Time passes: d seconds come off every expiration, and a key whose
\* expiration is used up is gone.  Remaining times stay among the values a
\* call can set.
Elapse(st, d) ==
    [k \in Keys |-> IF st[k].type = "none" \/ st[k].ttl = 0 THEN st[k]
                    ELSE IF st[k].ttl <= d THEN Absent
                    ELSE [st[k] EXCEPT !.ttl = @ - d]]

Tick ==
    \E d \in {1, EXPIRED} :
        /\ \E k \in Keys : store[k].type # "none" /\ store[k].ttl > 0
        /\ \A k \in Keys : Elapse(store, d)[k].ttl \in TtlInputs \cup {EXPIRED}
        /\ store' = Elapse(store, d)
        /\ pushed' = Forget(Elapse(store, d), pushed)
        /\ last' = [op |-> "tick", status |-> ""]
        /\ UNCHANGED raceVars

Next ==
    \/ SaveSession
    \/ UpdateSession
    \/ DeleteSession
    \/ GetSession
    \/ Verify
    \/ SaveUpdateHashData
    \/ GetHashData
    \/ SaveListData
    \/ GetListData
    \/ SaveUpdateUsualData
    \/ GetUsualData
    \/ IsExistKey
    \/ DeleteKeys
    \/ GetKeys
    \/ Tick

Spec == Init /\ [][Next]_vars

\* ------------------------------------- two concurrent delete_session calls
\* Both coroutines delete the session that save_session has just stored
\* (last); each suspends at its two awaits, hget and delete, and nothing
\* else touches the store meanwhile.
RaceKey == last.key

RaceInit ==
    \E s \in SessionInputs, o \in SessionInputs, ex \in {1, EXPIRED}, oex \in TtlInputs \cup {EXPIRED} :
        LET first == save_session([k \in Keys |-> Absent], o, oex)
            r == save_session(first.st, s, ex)
        IN /\ store = r.st
           /\ pushed = [k \in Keys |-> NoPushes]
           /\ last = Call("save_session", s["session_id"].str, s, ex, r, NoCall, NoPushes)
           /\ pc = [c \in Callers |-> "start"]
           /\ got = [c \in Callers |-> Reply(<<>>, PyNone)]
           /\ res = [c \in Callers |-> NoCall]
           /\ trace = <<>>

\* await self.redis_db.hget(session_id, "session_id")
DeleteSessionRead(c) ==
    /\ pc[c] = "start"
    /\ got' = [got EXCEPT ![c] = [redis_hget(store, RaceKey, "session_id") EXCEPT !.st = <<>>]]
    /\ pc' = [pc EXCEPT ![c] = "read"]
    /\ trace' = Append(trace, <<c, "hget">>)
    /\ UNCHANGED <<store, pushed, last, res>>

\* the comparison, then await self.redis_db.delete(session_id)
DeleteSessionFinish(c) ==
    /\ pc[c] = "read"
    /\ LET r == delete_session_finish(store, RaceKey, got[c])
       IN /\ store' = r.st
          /\ res' = [res EXCEPT ![c] = [op |-> "delete_session", status |-> r.status,
                                        msg |-> r.msg]]
          /\ trace' = IF Len(r.cmds) = 2 THEN Append(trace, <<c, "delete">>) ELSE trace
    /\ pc' = [pc EXCEPT ![c] = "done"]
    /\ UNCHANGED <<pushed, last, got>>

RaceNext == \E c \in Callers : DeleteSessionRead(c) \/ DeleteSessionFinish(c)

RaceSpec == RaceInit /\ [][RaceNext]_vars

\* ------------------------------------------------------------ properties
ReadOps == {"get_session", "get_hash_data", "get_list_data", "get_usual_data"}

\* The record save_session and update_session write for a session
Record(session) == [a \in DOMAIN session |-> Serialize(session[a])]

\* A value after a JSON encode/decode; a str is kept as it is
AfterJson(v) == IF isinstance_str(v) THEN v ELSE ujson_loads(ujson_dumps(v)).v

SameSession(a, b) == /\ DOMAIN a = DOMAIN b
                     /\ \A f \in DOMAIN a : a[f] = AfterJson(b[f])

RECURSIVE Reverse(_)
Reverse(s) == IF s = <<>> THEN <<>> ELSE Reverse(Tail(s)) \o <<Head(s)>>

\* The session_id field stored under a key that is absent or holds a hash
StoredId(st, k) == IF st[k].type = "hash" /\ "session_id" \in DOMAIN st[k].val
                   THEN PyStr(st[k].val["session_id"]) ELSE PyNone

\* The keys a delete call names
Deleted(c) == IF c.op = "delete_session" THEN {c.key}
              ELSE IF isinstance_str(c.arg) THEN {c.arg.str}
              ELSE {c.arg.list[i] : i \in 1..Len(c.arg.list)}

\* C1: save_session(s, ttl) with a positive ttl directly followed by
\* get_session(s.session_id) returns a Session with the attributes of s,
\* non-string values as they are after a JSON encode/decode.
C1_SessionRoundTrip ==
    (/\ last.op = "get_session"
     /\ last.prev.op = "save_session"
     /\ last.prev.ex > 0
     /\ last.prev.key = last.key)
    => (last.status = "ok" /\ SameSession(last.ret, last.prev.arg))

\* C2: save_update_usual_data(name, v, ttl) directly followed by
\* get_usual_data(name) returns v: the original structure for a non-string,
\* the very same str for a str, also when its text is valid JSON.
C2_UsualRoundTrip ==
    (/\ last.op = "get_usual_data"
     /\ last.prev.op = "save_update_usual_data"
     /\ last.prev.key = last.key)
    => (last.status = "ok" /\ last.ret = last.prev.arg)

\* C3: a call that fails, fails with RedisClientError; no other exception
\* class leaves any operation of the client.
C3_OnlyClientError == last.status \in {"", "ok", "RedisClientError"}

\* C4 as stated: is_exist_key is true right after any successful save of
\* the key, whatever the arguments, and false right after its delete.
C4_ExistsAfterAnySave ==
    last.op = "is_exist_key" =>
        /\ (last.prev.op \in SaveOps /\ last.prev.key = last.key) => last.ret = TRUE
        /\ (last.prev.op \in DeleteOps /\ last.key \in Deleted(last.prev)) => last.ret = FALSE

\* C4 amended: is_exist_key is true right after a successful save of the key
\* with a positive ttl, and false right after a successful delete of it.
C4_ExistsAfterSave ==
    last.op = "is_exist_key" =>
        /\ (last.prev.op \in SaveOps /\ last.prev.key = last.key /\ last.prev.ex > 0)
               => last.ret = TRUE
        /\ (last.prev.op \in DeleteOps /\ last.key \in Deleted(last.prev)) => last.ret = FALSE

C4_Witness ==
    /\ last.op = "is_exist_key"
    /\ last.prev.op \in SaveOps
    /\ last.prev.key = last.key
    /\ last.prev.ex > 0
    /\ last.ret = TRUE

\* C5: delete_session on a key whose stored session_id field differs from
\* the requested id (a missing key or field included) fails with the
\* mismatch error after the hget alone, and the store is as it was; under a
\* key of another type it fails on the hget, again without a delete.
C5_DeleteNeedsMatch ==
    [][last'.op = "delete_session" =>
         /\ (store[last'.key].type \in {"none", "hash"}
                /\ StoredId(store, last'.key) # PyStr(last'.key))
            => (/\ last'.status = "RedisClientError"
                /\ last'.msg = "mismatch"
                /\ last'.cmds = <<"hget">>
                /\ store' = store)
         /\ store[last'.key].type \notin {"none", "hash"}
            => (/\ last'.status = "RedisClientError"
                /\ last'.cmds = <<"hget">>
                /\ store' = store)]_vars

C5_Witness ==
    /\ last.op = "delete_session"
    /\ last.msg = "mismatch"
    /\ store[last.key].type = "hash"
    /\ StoredId(store, last.key) \notin {PyNone, PyStr(last.key)}

\* C6: when a write returns successfully with a positive ttl, its key exists
\* and expires in ttl seconds; no successful write leaves a key that never
\* expires.
C6_WriteSetsExpire ==
    (last.op \in SaveOps /\ last.status = "ok") =>
        /\ last.ex > 0 => (store[last.key].type # "none" /\ store[last.key].ttl = last.ex)
        /\ store[last.key].type # "none" => store[last.key].ttl > 0

C6_Witness ==
    /\ last.op = "save_list_data"
    /\ last.status = "ok"
    /\ last.ex > 0
    /\ Len(store[last.key].val) > 1

\* C7 as stated, for a positive ttl: after a successful update_session(s, ttl)
\* the hash under s.session_id is exactly the record of s.
C7_UpdateLeavesExactlyS ==
    (last.op = "update_session" /\ last.status = "ok" /\ last.ex > 0) =>
        (store[last.key].type = "hash" /\ store[last.key].val = Record(last.arg))

\* C7 amended: after a successful update_session(s, ttl) with a positive
\* ttl the hash under s.session_id holds the record of s, and besides it
\* every field stored before that s does not have.
C7_UpdateMerges ==
    [][(last'.op = "update_session" /\ last'.status = "ok" /\ last'.ex > 0) =>
         LET k == last'.key
             old == IF store[k].type = "hash" THEN store[k].val ELSE <<>>
             rec == Record(last'.arg)
             new == store'[k].val
         IN /\ store'[k].type = "hash"
            /\ DOMAIN new = DOMAIN rec \cup DOMAIN old
            /\ \A f \in DOMAIN new : new[f] = IF f \in DOMAIN rec THEN rec[f] ELSE old[f]]_vars

C7_Witness ==
    /\ last.op = "update_session"
    /\ last.status = "ok"
    /\ last.ex > 0
    /\ "x" \in DOMAIN store[last.key].val
    /\ "x" \notin DOMAIN last.arg

\* C8: on a list built from an absent key by save_list_data calls that all
\* push left, get_list_data(name, 0, -1) returns the elements in reverse
\* insertion order; built by calls that all push right, in insertion order.
C8_ListOrder ==
    (last.op = "get_list_data" /\ last.arg = <<0, -1>> /\ last.hist.seq # <<>>) =>
        /\ last.status = "ok"
        /\ last.hist.sides = {TRUE} => last.ret = Reverse(last.hist.seq)
        /\ last.hist.sides = {FALSE} => last.ret = last.hist.seq

C8_Witness ==
    /\ last.op = "get_list_data"
    /\ last.arg = <<0, -1>>
    /\ last.hist.sides = {TRUE}
    /\ Len(last.hist.seq) > 1
    /\ last.hist.seq[1] # last.hist.seq[2]
    /\ last.ret = Reverse(last.hist.seq)

\* C9: a read of an absent key fails with RedisClientError (get_session:
\* not found; the others: expire answered 0) and leaves the store as it was.
C9_ReadOfAbsentKeyFails ==
    [][(last'.op \in ReadOps /\ store[last'.key].type = "none") =>
         /\ last'.status = "RedisClientError"
         /\ last'.msg = (IF last'.op = "get_session" THEN "not_found" ELSE "expire_failed")
         /\ store' = store]_vars

C9_Witness ==
    /\ last.op = "get_hash_data"
    /\ last.arg = "session_id"
    /\ last.msg = "expire_failed"
    /\ store[last.key].type = "none"

\* Position of an event in the trace (0: it did not happen)
At(e) == IF \E i \in 1..Len(trace) : trace[i] = e
         THEN CHOOSE i \in 1..Len(trace) : trace[i] = e ELSE 0

\* C10: when two concurrent delete_session calls for one stored session have
\* both finished, one has returned and the other has failed, with mismatch if
\* it read after the delete and with delete-failed if it read before it, and
\* the key is gone.
C10_OneDeleteWins ==
    (\A c \in Callers : pc[c] = "done") =>
        /\ store[RaceKey].type = "none"
        /\ \E w \in Callers :
              /\ res[w].status = "ok"
              /\ \A l \in Callers \ {w} :
                    /\ res[l].status = "RedisClientError"
                    /\ res[l].msg = IF At(<<l, "hget">>) > At(<<w, "delete">>)
                                    THEN "mismatch" ELSE "delete_failed"

C10_Witness ==
    /\ \A c \in Callers : pc[c] = "done"
    /\ res["A"].status = "ok"
    /\ res["B"].msg = "delete_failed"

====
